---- MODULE Spec2Model ----
(***************************************************************************)
(* HomieDevice (homie/device.py): the connection handshake run on every    *)
(* broker "connected" event, the readiness gate _EVENT with the tasks      *)
(* wrapped by await_ready_state, and the inbound dispatcher sub_cb.        *)
(*                                                                         *)
(* Tasks are cooperative: a task runs from one await to the next without   *)
(* interruption, so every action below is one such segment of one task.    *)
(* A topic is the sequence of its path segments (bytes joined by SLASH).   *)
(***************************************************************************)
EXTENDS Integers, Sequences, FiniteSets, TLC

\* ------------------------------------------------------------------ bounds
\* number of connection-established events delivered by the broker client
MaxHandshakes == 2
\* number of user coroutines wrapped by await_ready_state
NumGated == 1

\* --------------------------------------------------------------- settings
btopic == <<"homie">>
device_id == "dev"
dtopic == btopic \o <<device_id>>
device_name == "mydevice"

\* homie.constants, as used by device.py
DEVICE_STATE == <<"$state">>
STATE_INIT == <<"init">>
STATE_READY == <<"ready">>
STATE_RECOVER == <<"recover">>
RESTORE_DELAY == "RESTORE_DELAY"
MAIN_DELAY == "MAIN_DELAY"
LEGACY_FIRMWARE == "org.homie.legacy-firmware:0.1.1:[4.x]"
LEGACY_STATS == "org.homie.legacy-stats:0.1.1:[4.x]"

Property(id, settable, restore) ==
    [id |-> id, settable |-> settable, restore |-> restore]

HomieNode(id, properties) == [id |-> id, properties |-> properties]

\* the devices the handshake is run for: a node list and an extension list
Devices ==
    { [nodes |-> <<>>, extensions |-> <<LEGACY_FIRMWARE, LEGACY_STATS>>],
      [nodes |-> << HomieNode("relay", <<Property("power", TRUE, TRUE)>>) >>,
       extensions |-> <<>>],
      [nodes |-> << HomieNode("relay", <<Property("power", TRUE, TRUE),
                                         Property("mode", TRUE, FALSE)>>),
                    HomieNode("led", <<Property("level", FALSE, TRUE),
                                       Property("color", TRUE, TRUE)>>) >>,
       extensions |-> <<>>],
      [nodes |-> << HomieNode("sensor", <<Property("temp", FALSE, TRUE)>>) >>,
       extensions |-> <<>>] }

\* inbound messages handed to sub_cb by the broker client
Messages ==
    { [topic |-> <<"homie", "$broadcast", "alert">>, msg |-> "m1", retained |-> FALSE],
      [topic |-> <<"homie", "dev", "relay", "power">>, msg |-> "m2", retained |-> TRUE],
      [topic |-> <<"homie", "dev", "led", "color", "set">>, msg |-> "m1", retained |-> FALSE],
      [topic |-> <<"homie", "dev", "sensor", "temp", "set">>, msg |-> "m2", retained |-> FALSE] }

NoMsg == [topic |-> <<>>, msg |-> "", retained |-> FALSE]

Handshakes == 1..MaxHandshakes

TaskIds == ({"user"} \X (1..NumGated)) \cup ({"publish_stats"} \X Handshakes)

VARIABLES
    nodes,            \* self.nodes
    extensions,       \* self._extensions
    first_start,      \* self._first_start
    callback_topics,  \* self.callback_topics: node id -> index of the node whose callback it is
    EVENT,            \* _EVENT: the flag of the readiness gate
    connections,      \* connection-established events delivered so far
    pc,               \* per handshake: the await connection_handler is suspended at
    ops,              \* per handshake: the broker operations and delays it has issued
    wdt_tasks,        \* number of wdt() tasks created
    tasks,            \* state of each task wrapped by await_ready_state
    at_open,          \* per handshake: the tasks waiting on _EVENT when it set the flag
    late_waiters,     \* per handshake: the tasks waiting when it was created, if the
                      \* first handshake had closed the gate by then
    subscriptions,    \* the topic filters subscribed in the broker session (clean=True)
    stats_at,         \* per handshake: the await its publish_stats task is suspended at
    run_pc,           \* the await run() is suspended at
    inbound,          \* the message sub_cb was called with in the step just taken
    calls             \* the callbacks sub_cb invoked in the step just taken

vars == <<nodes, extensions, first_start, callback_topics, EVENT, connections,
          pc, ops, wdt_tasks, tasks, at_open, late_waiters, subscriptions,
          stats_at, run_pc, inbound, calls>>

\* ---------------------------------------------------------------- helpers
Op(kind, topic, payload) == [op |-> kind, topic |-> topic, payload |-> payload]

format_topic(topic) == dtopic \o topic

subscribe(topic) == Op("subscribe", format_topic(topic), <<>>)

\* mutant of unsubscribe: the /set topic is unsubscribed instead
unsubscribe_set_topic(topic) == Op("unsubscribe", format_topic(topic \o <<"set">>), <<>>)

unsubscribe(topic) == Op("unsubscribe", format_topic(topic), <<>>)

\* mutant of broadcast_subscribe: the filter is put under the device topic
broadcast_subscribe_on_device == Op("subscribe", dtopic \o <<"$broadcast", "#">>, <<>>)

broadcast_subscribe == Op("subscribe", btopic \o <<"$broadcast", "#">>, <<>>)

publish(topic, payload) == Op("publish", dtopic \o topic, payload)

sleep_ms(delay) == Op("sleep_ms", <<>>, <<delay>>)

restore_topic(n, p) == <<nodes[n].id, nodes[n].properties[p].id>>

set_topic(n, p) == <<nodes[n].id, nodes[n].properties[p].id, "set">>

\* mutant of IsSettable: every property is taken as settable
settable_ignored(prop) == TRUE

IsSettable(prop) == prop.settable

\* mutants of NeedsRestore: the restore flag ignored either way
NeedsRestoreNever(prop) == FALSE

NeedsRestoreAlways(prop) == TRUE

NeedsRestore(prop) == prop.restore

At(label, n, p) == [l |-> label, n |-> n, p |-> p]

Range(s) == {s[i] : i \in DOMAIN s}

\* the first settable property at or after property p of node n, in the order
\* of the two for loops; <<0, 0>> when both loops are exhausted
RECURSIVE NextSettable(_, _)
NextSettable(n, p) ==
    IF n > Len(nodes) THEN <<0, 0>>
    ELSE IF p > Len(nodes[n].properties) THEN NextSettable(n + 1, 1)
    ELSE IF IsSettable(nodes[n].properties[p]) THEN <<n, p>>
    ELSE NextSettable(n, p + 1)

\* mutant of register_callback: the callback is not put into the map
register_nothing(map, n) == map

\* if nid_enc not in self.callback_topics: self.callback_topics[nid_enc] = n.callback
register_callback(map, n) ==
    IF nodes[n].id \in DOMAIN map THEN map
    ELSE [id \in DOMAIN map \cup {nodes[n].id} |->
             IF id = nodes[n].id THEN n ELSE map[id]]

\* the branch taken at "if self._first_start is False" on entry
sends_recover(flag) == flag = FALSE

\* mutant of runs_first_start_block: the block runs on every handshake
runs_block_always(flag) == TRUE

\* the branch taken at "if self._first_start is True" after the subscriptions
runs_first_start_block(flag) == flag = TRUE

\* mutant of first_start_after_publish: the flag is never cleared
first_start_kept == TRUE

\* the value assigned by "self._first_start = False"
first_start_after_publish == FALSE

\* the flag of _EVENT while the handshake sleeps between set() and clear()
event_set == TRUE

\* ---------------------------------------------- publish_properties (ops)
\* mutant of device_properties: $name announced before $homie
device_properties_reordered ==
    << publish(<<"$name">>, <<device_name>>),
       publish(<<"$homie">>, <<"4.0.0">>),
       publish(DEVICE_STATE, STATE_INIT),
       publish(<<"$implementation">>, <<"platform">>),
       publish(<<"$nodes">>, [i \in 1..Len(nodes) |-> nodes[i].id]) >>

device_properties ==
    << publish(<<"$homie">>, <<"4.0.0">>),
       publish(<<"$name">>, <<device_name>>),
       publish(DEVICE_STATE, STATE_INIT),
       publish(<<"$implementation">>, <<"platform">>),
       publish(<<"$nodes">>, [i \in 1..Len(nodes) |-> nodes[i].id]) >>

\* await n.publish_properties(): the node's own metadata walk, one per node
node_properties ==
    [i \in 1..Len(nodes) |-> Op("node.publish_properties", dtopic \o <<nodes[i].id>>, <<>>)]

extension_properties ==
    IF extensions = <<>> THEN <<>>
    ELSE <<publish(<<"$extensions">>, extensions)>>
         \o (IF LEGACY_FIRMWARE \in Range(extensions)
             THEN << publish(<<"$localip">>, <<"local_ip">>),
                     publish(<<"$mac">>, <<"local_mac">>),
                     publish(<<"$fw", "name">>, <<"Microhomie">>),
                     publish(<<"$fw", "version">>, <<"__version__">>) >>
             ELSE <<>>)
         \o (IF LEGACY_STATS \in Range(extensions)
             THEN << publish(<<"$stats", "interval">>, <<"stats_interval">>) >>
             ELSE <<>>)

publish_properties == device_properties \o node_properties \o extension_properties

\* --------------------------------------------------------------- handshake
Quiet == inbound' = NoMsg /\ calls' = <<>>

\* the broker session after a subscribe or an unsubscribe
session_after(session, op) ==
    IF op.op = "subscribe" THEN session \cup {op.topic}
    ELSE IF op.op = "unsubscribe" THEN session \ {op.topic}
    ELSE session

Issue(h, label, n, p, op) ==
    /\ pc' = [pc EXCEPT ![h] = At(label, n, p)]
    /\ ops' = [ops EXCEPT ![h] = Append(@, op)]
    /\ subscriptions' = session_after(subscriptions, op)

\* lines 139-152 up to the next await, reached when both for loops are done
after_subscriptions(h) ==
    /\ IF runs_first_start_block(first_start)
       THEN Issue(h, "meta", 1, 0, publish_properties[1])
       ELSE Issue(h, "ready", 0, 0, publish(DEVICE_STATE, STATE_READY))
    /\ UNCHANGED <<first_start, callback_topics, EVENT, wdt_tasks, tasks, at_open, late_waiters, stats_at, run_pc>>

\* lines 117-133 up to the next await, resumed at property p of node n
node_topics(h, n, p) ==
    LET s == NextSettable(n, p) IN
    IF s = <<0, 0>> THEN after_subscriptions(h)
    ELSE /\ callback_topics' = register_callback(callback_topics, s[1])
         /\ IF NeedsRestore(nodes[s[1]].properties[s[2]])
            THEN Issue(h, "restore_subscribe", s[1], s[2], subscribe(restore_topic(s[1], s[2])))
            ELSE Issue(h, "set_subscribe", s[1], s[2], subscribe(set_topic(s[1], s[2])))
         /\ UNCHANGED <<first_start, EVENT, wdt_tasks, tasks, at_open, late_waiters, stats_at, run_pc>>

\* the handshakes that have started and not yet published READY
Running == {h \in Handshakes : pc[h].l \notin {"none", "done", "aborted"}}

\* the broker client creates a task for connect_coro on every connection; a
\* connection is lost and made again while at most one handshake is running
Connected ==
    /\ connections < MaxHandshakes
    /\ Cardinality(Running) <= 1
    /\ run_pc = (IF connections = 0 THEN "connect" ELSE "main_loop")
    /\ run_pc' = "main_loop"
    /\ subscriptions' = {}
    /\ connections' = connections + 1
    /\ pc' = [pc EXCEPT ![connections + 1] = At("created", 0, 0)]
    /\ late_waiters' = [late_waiters EXCEPT ![connections + 1] =
                            IF pc[1].l \in {"ready", "done"}
                            THEN {t \in TaskIds : tasks[t] = "waiting"}
                            ELSE {}]
    /\ Quiet
    /\ UNCHANGED <<nodes, extensions, first_start, callback_topics, EVENT, ops,
                   wdt_tasks, tasks, at_open, stats_at>>

\* lines 104-113: entry of connection_handler up to its first await; the
\* scheduler starts tasks in the order of their creation
connection_handler(h) ==
    /\ pc[h].l = "created"
    /\ \A g \in Handshakes : g < h => pc[g].l # "created"
    /\ IF sends_recover(first_start)
       THEN Issue(h, "recover", 0, 0, publish(DEVICE_STATE, STATE_RECOVER))
       ELSE Issue(h, "broadcast_subscribe", 0, 0, broadcast_subscribe)
    /\ Quiet
    /\ UNCHANGED <<nodes, extensions, first_start, callback_topics, EVENT,
                   connections, wdt_tasks, tasks, at_open, late_waiters, stats_at, run_pc>>

\* line 105 returns; lines 107-113
AfterRecover(h) ==
    /\ pc[h].l = "recover"
    /\ Issue(h, "broadcast_subscribe", 0, 0, broadcast_subscribe)
    /\ Quiet
    /\ UNCHANGED <<nodes, extensions, first_start, callback_topics, EVENT,
                   connections, wdt_tasks, tasks, at_open, late_waiters, stats_at, run_pc>>

\* line 111 returns; the for loops start
AfterBroadcastSubscribe(h) ==
    /\ pc[h].l = "broadcast_subscribe"
    /\ node_topics(h, 1, 1)
    /\ Quiet
    /\ UNCHANGED <<nodes, extensions, connections>>

\* line 127 returns; line 128
AfterRestoreSubscribe(h) ==
    /\ pc[h].l = "restore_subscribe"
    /\ Issue(h, "restore_delay", pc[h].n, pc[h].p, sleep_ms(RESTORE_DELAY))
    /\ Quiet
    /\ UNCHANGED <<nodes, extensions, first_start, callback_topics, EVENT,
                   connections, wdt_tasks, tasks, at_open, late_waiters, stats_at, run_pc>>

\* line 128 returns; line 129
AfterRestoreDelay(h) ==
    /\ pc[h].l = "restore_delay"
    /\ Issue(h, "unsubscribe", pc[h].n, pc[h].p, unsubscribe(restore_topic(pc[h].n, pc[h].p)))
    /\ Quiet
    /\ UNCHANGED <<nodes, extensions, first_start, callback_topics, EVENT,
                   connections, wdt_tasks, tasks, at_open, late_waiters, stats_at, run_pc>>

\* line 129 returns; lines 132-133
AfterUnsubscribe(h) ==
    /\ pc[h].l = "unsubscribe"
    /\ Issue(h, "set_subscribe", pc[h].n, pc[h].p, subscribe(set_topic(pc[h].n, pc[h].p)))
    /\ Quiet
    /\ UNCHANGED <<nodes, extensions, first_start, callback_topics, EVENT,
                   connections, wdt_tasks, tasks, at_open, late_waiters, stats_at, run_pc>>

\* line 133 returns; the loops go on with the next property
AfterSetSubscribe(h) ==
    /\ pc[h].l = "set_subscribe"
    /\ node_topics(h, pc[h].n, pc[h].p + 1)
    /\ Quiet
    /\ UNCHANGED <<nodes, extensions, connections>>

\* a publish of publish_properties returns and the next one is issued
PublishNextProperty(h) ==
    /\ pc[h].l = "meta"
    /\ pc[h].n < Len(publish_properties)
    /\ Issue(h, "meta", pc[h].n + 1, 0, publish_properties[pc[h].n + 1])
    /\ Quiet
    /\ UNCHANGED <<nodes, extensions, first_start, callback_topics, EVENT,
                   connections, wdt_tasks, tasks, at_open, late_waiters, stats_at, run_pc>>

\* the last publish of publish_properties returns: lines 217-218 when the
\* stats extension is enabled, then lines 141-149
FinishFirstStart(h) ==
    /\ pc[h].l = "meta"
    /\ pc[h].n = Len(publish_properties)
    /\ first_start' = first_start_after_publish
    /\ wdt_tasks' = wdt_tasks + 1
    /\ tasks' = IF LEGACY_STATS \in Range(extensions)
                THEN [tasks EXCEPT ![<<"publish_stats", h>>] = "created"]
                ELSE tasks
    /\ EVENT' = event_set
    /\ at_open' = [at_open EXCEPT ![h] = {t \in TaskIds : tasks[t] = "waiting"}]
    /\ Issue(h, "gate", 0, 0, sleep_ms(MAIN_DELAY))
    /\ Quiet
    /\ UNCHANGED <<nodes, extensions, callback_topics, connections, late_waiters, stats_at, run_pc>>

\* sleep_ms(MAIN_DELAY) is over only after every task that is ready to run
\* has run: a task polling a set _EVENT is due before the sleeping handshake
MainDelayOver == EVENT => \A t \in TaskIds : tasks[t] \notin {"created", "waiting"}

\* line 149 returns; lines 150-152
CloseGate(h) ==
    /\ pc[h].l = "gate"
    /\ MainDelayOver
    /\ EVENT' = FALSE
    /\ Issue(h, "ready", 0, 0, publish(DEVICE_STATE, STATE_READY))
    /\ Quiet
    /\ UNCHANGED <<nodes, extensions, first_start, callback_topics,
                   connections, wdt_tasks, tasks, at_open, late_waiters, stats_at, run_pc>>

\* line 152 returns: the handshake is complete
AfterReady(h) ==
    /\ pc[h].l = "ready"
    /\ pc' = [pc EXCEPT ![h] = At("done", 0, 0)]
    /\ Quiet
    /\ UNCHANGED <<nodes, extensions, first_start, callback_topics, EVENT,
                   connections, ops, wdt_tasks, tasks, at_open, late_waiters, stats_at,
                   run_pc, subscriptions>>

\* ------------------------------------------------ tasks behind the gate
\* a coroutine wrapped by await_ready_state is scheduled
create_task(t) ==
    /\ run_pc # "reset"
    /\ t[1] = "user"
    /\ tasks[t] = "none"
    /\ tasks' = [tasks EXCEPT ![t] = "created"]
    /\ Quiet
    /\ UNCHANGED <<nodes, extensions, first_start, callback_topics, EVENT,
                   connections, pc, ops, wdt_tasks, at_open, late_waiters, stats_at,
                   run_pc, subscriptions>>

\* mutant of await_ready_state: func is run without awaiting _EVENT
await_ready_state_skipped(flag) == "running"

\* new_gen: "await _EVENT" returns at once when the flag is set, else suspends
await_ready_state(flag) == IF flag THEN "running" ELSE "waiting"

\* func is entered: publish_stats runs up to its first publish (lines 222-229)
entered(t, state) ==
    IF t[1] = "publish_stats" /\ state = "running"
    THEN [stats_at EXCEPT ![t[2]] = "uptime"]
    ELSE stats_at

TaskStart(t) ==
    /\ run_pc # "reset"
    /\ tasks[t] = "created"
    /\ tasks' = [tasks EXCEPT ![t] = await_ready_state(EVENT)]
    /\ stats_at' = entered(t, await_ready_state(EVENT))
    /\ Quiet
    /\ UNCHANGED <<nodes, extensions, first_start, callback_topics, EVENT,
                   connections, pc, ops, wdt_tasks, at_open, late_waiters,
                   run_pc, subscriptions>>

\* a task suspended in "await _EVENT" sees the flag set and goes on to func
TaskResume(t) ==
    /\ tasks[t] = "waiting"
    /\ EVENT
    /\ tasks' = [tasks EXCEPT ![t] = "running"]
    /\ stats_at' = entered(t, "running")
    /\ Quiet
    /\ UNCHANGED <<nodes, extensions, first_start, callback_topics, EVENT,
                   connections, pc, ops, wdt_tasks, at_open, late_waiters,
                   run_pc, subscriptions>>

\* publish_stats, lines 227-231: an await of the loop returns and the next is issued
stats_next(at) ==
    IF at = "uptime" THEN "freeheap"
    ELSE IF at = "freeheap" THEN "sleep_ms"
    ELSE "uptime"

publish_stats(h) ==
    /\ stats_at[h] # "none"
    /\ stats_at' = [stats_at EXCEPT ![h] = stats_next(@)]
    /\ Quiet
    /\ UNCHANGED <<nodes, extensions, first_start, callback_topics, EVENT,
                   connections, pc, ops, wdt_tasks, tasks, at_open, late_waiters,
                   run_pc, subscriptions>>

\* --------------------------------------------------------------------- run
\* line 235 raises OSError: lines 236-238
ConnectError ==
    /\ run_pc = "connect"
    /\ run_pc' = "error_delay"
    /\ Quiet
    /\ UNCHANGED <<nodes, extensions, first_start, callback_topics, EVENT,
                   connections, pc, ops, wdt_tasks, tasks, at_open, late_waiters,
                   stats_at, subscriptions>>

\* mutant of after_error_delay: the connect is tried again in place
retry_in_place == "connect"

\* where run() is after sleep_ms(5000) at line 238: reset() restarts the device
after_error_delay == "reset"

\* line 238 returns; line 239
reset ==
    /\ run_pc = "error_delay"
    /\ run_pc' = after_error_delay
    /\ Quiet
    /\ UNCHANGED <<nodes, extensions, first_start, callback_topics, EVENT,
                   connections, pc, ops, wdt_tasks, tasks, at_open, late_waiters,
                   stats_at, subscriptions>>

\* ---------------------------------------------------- a failing broker call
BrokerCalls == {"recover", "broadcast_subscribe", "restore_subscribe",
                "unsubscribe", "set_subscribe", "meta", "ready"}

\* mutant of after_raise: the exception is swallowed and the handshake ends
\* as if it had completed
raise_swallowed(at) == At("done", 0, 0)

\* where connection_handler is after an await raises: nothing catches it
after_raise(at) == At("aborted", 0, 0)

\* the publish, subscribe or unsubscribe the handshake is suspended at raises
Raise(h) ==
    /\ pc[h].l \in BrokerCalls
    /\ pc' = [pc EXCEPT ![h] = after_raise(@)]
    /\ Quiet
    /\ UNCHANGED <<nodes, extensions, first_start, callback_topics, EVENT,
                   connections, ops, wdt_tasks, tasks, at_open, late_waiters,
                   stats_at, run_pc, subscriptions>>

\* ------------------------------------------------------------------ sub_cb
BroadcastSegments == {"$broadcast"}

\* mutant of is_broadcast: the marker is never found
is_broadcast_never(topic) == FALSE

\* b"/$broadcast" in topic: a segment after the first begins with $broadcast
is_broadcast(topic) == \E i \in 2..Len(topic) : topic[i] \in BroadcastSegments

\* mutant of node_segment: the index is one too small
node_segment_before(topic) == topic[Len(dtopic)]

\* nt[len(self.dtopic.split(SLASH))], counting segments from 1
node_segment(topic) == topic[Len(dtopic) + 1]

Call(fn, n, m) ==
    [fn |-> fn, node |-> n, topic |-> m.topic, msg |-> m.msg, retained |-> m.retained]

dispatch(m) ==
    IF is_broadcast(m.topic)
    THEN [i \in 1..Len(nodes) |-> Call("broadcast_callback", i, m)]
    ELSE IF node_segment(m.topic) \in DOMAIN callback_topics
         THEN << Call("callback", callback_topics[node_segment(m.topic)], m) >>
         ELSE <<>>

sub_cb(m) ==
    /\ connections > 0
    /\ inbound' = m
    /\ calls' = dispatch(m)
    /\ UNCHANGED <<nodes, extensions, first_start, callback_topics, EVENT,
                   connections, pc, ops, wdt_tasks, tasks, at_open, late_waiters,
                   stats_at, run_pc, subscriptions>>

\* ------------------------------------------------------------ specification
Init ==
    /\ \E d \in Devices : nodes = d.nodes /\ extensions = d.extensions
    /\ first_start = TRUE
    /\ callback_topics = [id \in {} |-> 0]
    /\ EVENT = FALSE
    /\ connections = 0
    /\ pc = [h \in Handshakes |-> At("none", 0, 0)]
    /\ ops = [h \in Handshakes |-> <<>>]
    /\ wdt_tasks = 0
    /\ tasks = [t \in TaskIds |-> "none"]
    /\ at_open = [h \in Handshakes |-> {}]
    /\ late_waiters = [h \in Handshakes |-> {}]
    /\ subscriptions = {}
    /\ stats_at = [h \in Handshakes |-> "none"]
    /\ run_pc = "connect"
    /\ inbound = NoMsg
    /\ calls = <<>>

\* the run loop, the handshakes and the tasks they create
Handshake ==
    \/ Connected
    \/ ConnectError
    \/ reset
    \/ \E h \in Handshakes : connection_handler(h)
    \/ \E h \in Handshakes : AfterRecover(h)
    \/ \E h \in Handshakes : AfterBroadcastSubscribe(h)
    \/ \E h \in Handshakes : AfterRestoreSubscribe(h)
    \/ \E h \in Handshakes : AfterRestoreDelay(h)
    \/ \E h \in Handshakes : AfterUnsubscribe(h)
    \/ \E h \in Handshakes : AfterSetSubscribe(h)
    \/ \E h \in Handshakes : PublishNextProperty(h)
    \/ \E h \in Handshakes : FinishFirstStart(h)
    \/ \E h \in Handshakes : CloseGate(h)
    \/ \E h \in Handshakes : AfterReady(h)
    \/ \E t \in TaskIds : TaskStart(t)

\* the user coroutines wrapped by await_ready_state
Gated ==
    \/ \E t \in TaskIds : create_task(t)
    \/ \E t \in TaskIds : TaskResume(t)

Next ==
    \/ Handshake
    \/ Gated

Spec == Init /\ [][Next]_vars

\* the handshakes with the messages the broker client hands to sub_cb
NextInbound ==
    \/ Handshake
    \/ \E m \in Messages : sub_cb(m)

SpecInbound == Init /\ [][NextInbound]_vars

\* the device with the loop of the stats reporter
NextStats ==
    \/ Handshake
    \/ Gated
    \/ \E h \in Handshakes : publish_stats(h)

SpecStats == Init /\ [][NextStats]_vars

\* the handshakes with broker calls that raise
NextRaise ==
    \/ Handshake
    \/ \E h \in Handshakes : Raise(h)

SpecRaise == Init /\ [][NextRaise]_vars

\* ------------------------------------------------------------------ claims
\* the (node, property) index pairs of the device
PropertyIndex ==
    UNION { {<<n, p>> : p \in 1..Len(nodes[n].properties)} : n \in 1..Len(nodes) }

PropertyAt(np) == nodes[np[1]].properties[np[2]]

\* the absolute topic <base>/<device>/<node-id>/<property-id> of a property
ValueTopic(np) == <<"homie", "dev", nodes[np[1]].id, PropertyAt(np).id>>

Count(s, op) == Cardinality({i \in DOMAIN s : s[i] = op})

Position(s, op) == CHOOSE i \in DOMAIN s : s[i] = op

\* the handshake has left the two for loops over nodes and properties
PastSubscriptions(h) == pc[h].l \in {"meta", "gate", "ready", "done"}

Sub(topic) == [op |-> "subscribe", topic |-> topic, payload |-> <<>>]

Unsub(topic) == [op |-> "unsubscribe", topic |-> topic, payload |-> <<>>]

Pub(topic, payload) == [op |-> "publish", topic |-> topic, payload |-> payload]

Sleep(delay) == [op |-> "sleep_ms", topic |-> <<>>, payload |-> <<delay>>]

\* C1: in every handshake, for every property with settable and restore, the
\* operations on its topics are subscribe <node>/<property>, the restore delay,
\* unsubscribe <node>/<property>, subscribe <node>/<property>/set, adjacent and
\* in that order, each at most once while the handshake runs and exactly once
\* when it has left the subscription loops.
C1_RestoreSequence ==
    \A h \in Handshakes : \A np \in PropertyIndex :
        (PropertyAt(np).settable /\ PropertyAt(np).restore) =>
            LET s == ops[h]
                t == ValueTopic(np)
            IN /\ Count(s, Sub(t)) <= 1
               /\ Count(s, Unsub(t)) <= 1
               /\ Count(s, Sub(t \o <<"set">>)) <= 1
               /\ \A i \in DOMAIN s :
                    /\ (s[i] = Sub(t) /\ i < Len(s)) => s[i + 1] = Sleep("RESTORE_DELAY")
                    /\ s[i] = Unsub(t) =>
                         i > 2 /\ s[i - 1] = Sleep("RESTORE_DELAY") /\ s[i - 2] = Sub(t)
                    /\ s[i] = Sub(t \o <<"set">>) => i > 1 /\ s[i - 1] = Unsub(t)
               /\ PastSubscriptions(h) => Count(s, Sub(t \o <<"set">>)) = 1

\* C1 witness: a reconnection handshake has completed on a device that has a
\* settable property with restore
C1_Witness ==
    \E h \in Handshakes : \E np \in PropertyIndex :
        /\ h > 1
        /\ pc[h].l = "done"
        /\ PropertyAt(np).settable /\ PropertyAt(np).restore
        /\ Count(ops[h], Unsub(ValueTopic(np))) = 1

\* C2 (as claimed): every handshake other than the first of the process
\* lifetime publishes device-state RECOVER before anything else, and the first
\* handshake never publishes RECOVER.
C2_RecoverOnEveryLaterHandshake ==
    /\ Pub(<<"homie", "dev", "$state">>, <<"recover">>) \notin Range(ops[1])
    /\ \A h \in Handshakes :
         (h > 1 /\ ops[h] # <<>>) =>
             ops[h][1] = Pub(<<"homie", "dev", "$state">>, <<"recover">>)

\* the device of the scenario: node relay with property power, settable, restore
ScenarioDevice ==
    /\ nodes = << [id |-> "relay",
                   properties |-> << [id |-> "power", settable |-> TRUE,
                                      restore |-> TRUE] >>] >>
    /\ extensions = <<>>

\* C3 (as claimed): on the first connection of the scenario device the
\* metadata publishes come first, then the restore sequence, then READY.
C3_MetadataBeforeSubscriptions ==
    (ScenarioDevice /\ pc[1].l = "done") =>
        LET s == ops[1]
            at(op) == Position(s, op)
        IN /\ at(Pub(<<"homie", "dev", "$homie">>, <<"4.0.0">>))
                < at(Pub(<<"homie", "dev", "$name">>, <<"mydevice">>))
           /\ at(Pub(<<"homie", "dev", "$name">>, <<"mydevice">>))
                < at(Pub(<<"homie", "dev", "$state">>, <<"init">>))
           /\ at(Pub(<<"homie", "dev", "$state">>, <<"init">>))
                < at(Pub(<<"homie", "dev", "$implementation">>, <<"platform">>))
           /\ at(Pub(<<"homie", "dev", "$implementation">>, <<"platform">>))
                < at(Pub(<<"homie", "dev", "$nodes">>, <<"relay">>))
           /\ at(Pub(<<"homie", "dev", "$nodes">>, <<"relay">>))
                < at([op |-> "node.publish_properties",
                      topic |-> <<"homie", "dev", "relay">>, payload |-> <<>>])
           /\ at([op |-> "node.publish_properties",
                  topic |-> <<"homie", "dev", "relay">>, payload |-> <<>>])
                < at(Sub(<<"homie", "dev", "relay", "power">>))
           /\ at(Sub(<<"homie", "dev", "relay", "power">>)) < at(Sleep("RESTORE_DELAY"))
           /\ at(Sleep("RESTORE_DELAY")) < at(Unsub(<<"homie", "dev", "relay", "power">>))
           /\ at(Unsub(<<"homie", "dev", "relay", "power">>))
                < at(Sub(<<"homie", "dev", "relay", "power", "set">>))
           /\ at(Sub(<<"homie", "dev", "relay", "power", "set">>))
                < at(Pub(<<"homie", "dev", "$state">>, <<"ready">>))

\* what the first handshake of the scenario device issues, in order
ScenarioFirstConnection ==
    << Sub(<<"homie", "$broadcast", "#">>),
       Sub(<<"homie", "dev", "relay", "power">>),
       Sleep("RESTORE_DELAY"),
       Unsub(<<"homie", "dev", "relay", "power">>),
       Sub(<<"homie", "dev", "relay", "power", "set">>),
       Pub(<<"homie", "dev", "$homie">>, <<"4.0.0">>),
       Pub(<<"homie", "dev", "$name">>, <<"mydevice">>),
       Pub(<<"homie", "dev", "$state">>, <<"init">>),
       Pub(<<"homie", "dev", "$implementation">>, <<"platform">>),
       Pub(<<"homie", "dev", "$nodes">>, <<"relay">>),
       [op |-> "node.publish_properties", topic |-> <<"homie", "dev", "relay">>,
        payload |-> <<>>],
       Sleep("MAIN_DELAY"),
       Pub(<<"homie", "dev", "$state">>, <<"ready">>) >>

\* what that handshake issues when the handshake of a later connection has
\* cleared first_start before its subscriptions were done
ScenarioOvertaken ==
    SubSeq(ScenarioFirstConnection, 1, 5)
        \o << Pub(<<"homie", "dev", "$state">>, <<"ready">>) >>

IsPrefix(s, t) == Len(s) <= Len(t) /\ s = SubSeq(t, 1, Len(s))

\* C3 (amended): on the first connection of the scenario device the
\* operations are issued in the order of ScenarioFirstConnection: the
\* broadcast subscription and the restore sequence first, the metadata
\* publishes only after them, then the gate delay and READY, and nothing
\* else; the metadata and the gate delay are left out only when a later
\* connection's handshake has cleared first_start in the meantime.
C3_SubscriptionsBeforeMetadata ==
    ScenarioDevice =>
        /\ IsPrefix(ops[1], ScenarioFirstConnection) \/ ops[1] = ScenarioOvertaken
        /\ pc[1].l = "done" => ops[1] \in {ScenarioFirstConnection, ScenarioOvertaken}
        /\ (pc[1].l = "done" /\ connections = 1) => ops[1] = ScenarioFirstConnection

\* C3 witness: the first handshake of the scenario device has completed
C3_Witness == ScenarioDevice /\ pc[1].l = "done" /\ ops[1] = ScenarioFirstConnection

\* the handshake has finished publish_properties (it has gone on to the gate)
Announced(h) == Sleep("MAIN_DELAY") \in Range(ops[h])

\* C4 (as claimed): first_start is true until the first handshake completes
\* and false in every later state.
C4_TrueUntilHandshakeCompletes ==
    first_start <=> (\A h \in Handshakes : pc[h].l # "done")

\* C4 (amended): first_start is true until a handshake has finished the
\* metadata announcement, which is before that handshake opens the gate and
\* publishes READY, and false in every later state; once false it never
\* becomes true again.
C4_TrueUntilAnnounced ==
    /\ [](first_start <=> (\A h \in Handshakes : ~Announced(h)))
    /\ [][first_start = FALSE => first_start' = FALSE]_vars

\* C4 witness: two handshakes have completed and the flag is false
C4_Witness ==
    /\ first_start = FALSE
    /\ Cardinality({h \in Handshakes : pc[h].l = "done"}) >= 2

\* C5 (as claimed): the metadata announcement is published by at most one
\* handshake in the device's lifetime.
C5_AnnouncedAtMostOnce ==
    Cardinality({h \in Handshakes :
                    Pub(<<"homie", "dev", "$homie">>, <<"4.0.0">>) \in Range(ops[h])}) <= 1

C7_NextHandshakeResumes ==
    \A h \in Handshakes :
        pc[h].l = "done" => \A t \in late_waiters[h] : tasks[t] = "running"

\* the gate is closed for good: the flag is cleared and no handshake is inside
\* the first-start block
GateShut ==
    /\ first_start = FALSE
    /\ EVENT = FALSE
    /\ \A h \in Handshakes : pc[h].l \notin {"meta", "gate"}

\* C7 (amended): once first_start is false and no handshake is inside the
\* first-start block, no later handshake opens the gate: the gate stays
\* closed and every task waiting on it stays suspended.
C7_LateWaiterStaysSuspended ==
    [][GateShut =>
          /\ GateShut'
          /\ \A t \in TaskIds : tasks[t] = "waiting" => tasks'[t] = "waiting"]_vars

\* C7 witness: a reconnection handshake has completed and a task that was
\* waiting when it was created is still waiting
C7_Witness ==
    \E h \in Handshakes : \E t \in late_waiters[h] :
        h > 1 /\ pc[h].l = "done" /\ tasks[t] = "waiting" /\ GateShut

\* the topic holds no broadcast marker
NoMarker(topic) == \A i \in DOMAIN topic : topic[i] # "$broadcast"

\* C8: for an inbound message without the broadcast marker, the node id is the
\* segment after the device topic; if it is in the callback map, exactly the
\* callback of the node with that id is invoked, once, with the message
\* unchanged; if not, nothing is invoked; and sub_cb changes no device state.
C8_NodeDispatch ==
    /\ [](  (inbound # NoMsg /\ NoMarker(inbound.topic)) =>
              LET id == inbound.topic[3] IN
              IF id \in DOMAIN callback_topics
              THEN /\ Len(calls) = 1
                   /\ calls[1].fn = "callback"
                   /\ nodes[calls[1].node].id = id
                   /\ calls[1].topic = inbound.topic
                   /\ calls[1].msg = inbound.msg
                   /\ calls[1].retained = inbound.retained
              ELSE calls = <<>>)
    /\ [][inbound' # NoMsg =>
             UNCHANGED <<nodes, extensions, first_start, callback_topics, EVENT,
                         connections, pc, ops, wdt_tasks, tasks>>]_vars

\* C8 witness: a message for a registered node has been dispatched
C8_Witness ==
    /\ inbound # NoMsg
    /\ NoMarker(inbound.topic)
    /\ inbound.topic[3] \in DOMAIN callback_topics
    /\ Len(calls) = 1

\* C9: for an inbound message with the broadcast marker, the broadcast
\* callback of every node is invoked exactly once, in the nodes' order, with
\* the message unchanged, and no property callback is invoked.
C9_BroadcastFanOut ==
    (inbound # NoMsg /\ ~NoMarker(inbound.topic)) =>
        /\ Len(calls) = Len(nodes)
        /\ \A i \in 1..Len(nodes) :
             calls[i] = [fn |-> "broadcast_callback", node |-> i,
                         topic |-> inbound.topic, msg |-> inbound.msg,
                         retained |-> inbound.retained]

\* C9 witness: a broadcast has been fanned out to a device with two nodes
C9_Witness ==
    /\ inbound # NoMsg
    /\ ~NoMarker(inbound.topic)
    /\ Len(nodes) = 2
    /\ Len(calls) = 2

\* C10: in every handshake, for every property with settable and without
\* restore, no subscribe and no unsubscribe is issued for <node>/<property>;
\* the /set subscription is issued at most once, and exactly once when the
\* handshake has left the subscription loops.
C10_NoRestoreSubscription ==
    \A h \in Handshakes : \A np \in PropertyIndex :
        (PropertyAt(np).settable /\ ~PropertyAt(np).restore) =>
            LET s == ops[h]
                t == ValueTopic(np)
            IN /\ Count(s, Sub(t)) = 0
               /\ Count(s, Unsub(t)) = 0
               /\ Count(s, Sub(t \o <<"set">>)) <= 1
               /\ PastSubscriptions(h) => Count(s, Sub(t \o <<"set">>)) = 1

\* C10 witness: a handshake has completed on a device that has a settable
\* property without restore
C10_Witness ==
    \E h \in Handshakes : \E np \in PropertyIndex :
        /\ pc[h].l = "done"
        /\ PropertyAt(np).settable /\ ~PropertyAt(np).restore
        /\ Count(ops[h], Sub(ValueTopic(np) \o <<"set">>)) = 1

\* the stats reporter created by handshake h has issued a publish
StatsPublished(h) == stats_at[h] # "none"

\* C11 (as claimed): the stats reporter publishes $stats/uptime only after the
\* gate has been opened, hence only after every metadata publish of the first
\* handshake has been issued, and it runs func without waiting again.
C11_StatsAfterFirstMetadata ==
    \A h \in Handshakes :
        StatsPublished(h) =>
            /\ tasks[<<"publish_stats", h>>] = "running"
            /\ \E g \in Handshakes : Announced(g)
            /\ \A i \in DOMAIN publish_properties :
                 publish_properties[i] \in Range(ops[1])

\* a publish of the stats reporter is issued in the step
StatsPublishIssued ==
    \E h \in Handshakes :
        stats_at'[h] # stats_at[h] /\ stats_at'[h] \in {"uptime", "freeheap"}

\* the handshake has started and has not yet issued its READY publish
BeforeReady(h) == pc[h].l \notin {"none", "created", "ready", "done", "aborted"}

RECURSIVE TopicsFrom(_, _)
TopicsFrom(n, p) ==
    IF n > Len(nodes) THEN <<>>
    ELSE IF p > Len(nodes[n].properties) THEN TopicsFrom(n + 1, 1)
    ELSE LET prop == nodes[n].properties[p]
             t == <<"homie", "dev", nodes[n].id, prop.id>>
         IN (IF prop.settable
             THEN (IF prop.restore
                   THEN <<Sub(t), Sleep("RESTORE_DELAY"), Unsub(t)>>
                   ELSE <<>>) \o <<Sub(t \o <<"set">>)>>
             ELSE <<>>) \o TopicsFrom(n, p + 1)

\* the metadata publishes of the device, in order
Metadata ==
    << Pub(<<"homie", "dev", "$homie">>, <<"4.0.0">>),
       Pub(<<"homie", "dev", "$name">>, <<"mydevice">>),
       Pub(<<"homie", "dev", "$state">>, <<"init">>),
       Pub(<<"homie", "dev", "$implementation">>, <<"platform">>),
       Pub(<<"homie", "dev", "$nodes">>, [i \in 1..Len(nodes) |-> nodes[i].id]) >>
    \o [i \in 1..Len(nodes) |->
           [op |-> "node.publish_properties",
            topic |-> <<"homie", "dev", nodes[i].id>>, payload |-> <<>>]]
    \o (IF extensions = <<>> THEN <<>>
        ELSE <<Pub(<<"homie", "dev", "$extensions">>, extensions)>>)
    \o (IF \E i \in DOMAIN extensions : extensions[i] = "org.homie.legacy-firmware:0.1.1:[4.x]"
        THEN << Pub(<<"homie", "dev", "$localip">>, <<"local_ip">>),
                Pub(<<"homie", "dev", "$mac">>, <<"local_mac">>),
                Pub(<<"homie", "dev", "$fw", "name">>, <<"Microhomie">>),
                Pub(<<"homie", "dev", "$fw", "version">>, <<"__version__">>) >>
        ELSE <<>>)
    \o (IF \E i \in DOMAIN extensions : extensions[i] = "org.homie.legacy-stats:0.1.1:[4.x]"
        THEN << Pub(<<"homie", "dev", "$stats", "interval">>, <<"stats_interval">>) >>
        ELSE <<>>)

\* the steps of a handshake in the order of the handshake: RECOVER when it is
\* a reconnection, the broadcast subscription, the node topics, the metadata
\* and the gate delay when it makes the announcement, and READY
HandshakeSteps(recover, announce) ==
    (IF recover THEN <<Pub(<<"homie", "dev", "$state">>, <<"recover">>)>> ELSE <<>>)
    \o <<Sub(<<"homie", "$broadcast", "#">>)>>
    \o TopicsFrom(1, 1)
    \o (IF announce THEN Metadata \o <<Sleep("MAIN_DELAY")>> ELSE <<>>)
    \o <<Pub(<<"homie", "dev", "$state">>, <<"ready">>)>>

FirstStartSteps ==
    <<Sub(<<"homie", "$broadcast", "#">>)>> \o TopicsFrom(1, 1)
        \o Metadata \o <<Sleep("MAIN_DELAY")>>

\* C13 (as claimed): the watchdog feeder is started only when the first
\* handshake has issued all its subscriptions and metadata publishes, by the
\* first handshake only, so at most one feeder task exists.
C13_AtMostOneFeeder ==
    /\ wdt_tasks <= 1
    /\ wdt_tasks > 0 => IsPrefix(FirstStartSteps, ops[1])

\* C14: when the initial connect has raised, no handshake is ever created or
\* started and no broker operation is issued, and the run loop goes from the
\* fixed delay to the device reset and nowhere else; it never connects again.
C14_ConnectErrorResets ==
    /\ [](run_pc \in {"error_delay", "reset"} =>
             /\ connections = 0
             /\ \A h \in Handshakes : pc[h].l = "none" /\ ops[h] = <<>>
             /\ subscriptions = {})
    /\ [][run_pc = "error_delay" => run_pc' \in {"error_delay", "reset"}]_vars
    /\ [][run_pc = "reset" => run_pc' = "reset"]_vars

\* C14 witness: the connect raised and the run loop has reached the reset
C14_Witness ==
    /\ run_pc = "reset"
    /\ connections = 0
    /\ \A h \in Handshakes : ops[h] = <<>>

Ready == Pub(<<"homie", "dev", "$state">>, <<"ready">>)

\* the handshake has been ended by a broker operation that raised
Aborted(h) == pc[h].l = "aborted"

\* C15: a handshake whose broker operation raises is aborted at that step: the
\* failing step changes nothing else, the handshake issues no operation
\* afterwards (no later step, no retry), READY is in its log only if the READY
\* publish is the operation that failed, a handshake has completed only with
\* READY as its last operation, and first_start is false only if some
\* handshake has finished the metadata announcement before.
C15_FailureAborts ==
    /\ [](\A h \in Handshakes :
            /\ Aborted(h) =>
                 /\ ops[h] # <<>>
                 /\ \E recover, announce \in BOOLEAN :
                      IsPrefix(ops[h], HandshakeSteps(recover, announce))
                 /\ \A i \in 1..(Len(ops[h]) - 1) : ops[h][i] # Ready
            /\ pc[h].l = "done" => ops[h][Len(ops[h])] = Ready)
    /\ [](first_start <=> \A h \in Handshakes : ~Announced(h))
    /\ [][\A h \in Handshakes :
            /\ Aborted(h) => Aborted(h)' /\ ops'[h] = ops[h]
            /\ (~Aborted(h) /\ Aborted(h)') =>
                 UNCHANGED <<first_start, ops, callback_topics, EVENT, wdt_tasks,
                             tasks, subscriptions, connections>>]_vars

\* C15 witness: the first handshake was aborted inside the metadata
\* announcement, first_start stayed true, and the handshake of the next
\* connection has made the whole announcement and published READY
C15_Witness ==
    /\ Aborted(1)
    /\ Pub(<<"homie", "dev", "$homie">>, <<"4.0.0">>) \in Range(ops[1])
    /\ ~Announced(1)
    /\ Ready \notin Range(ops[1])
    /\ pc[2].l = "done"
    /\ ops[2] = HandshakeSteps(FALSE, TRUE)

\* the topic filters of a completed handshake: the broadcast filter and the
\* /set topic of every settable property
CommandSubscriptions ==
    {<<"homie", "$broadcast", "#">>}
        \cup {ValueTopic(np) \o <<"set">> : np \in {x \in PropertyIndex : PropertyAt(x).settable}}

\* C16 (as claimed): when a handshake publishes READY, the active
\* subscriptions are exactly the broadcast topic and the /set topic of every
\* settable property, so no restore subscription is still active.
C16_ReadyWithCommandSubscriptionsOnly ==
    [][\A h \in Handshakes :
          (pc[h].l # "ready" /\ pc'[h].l = "ready") =>
              subscriptions' = CommandSubscriptions]_vars

\* the settable properties, and their order in the two for loops
SettableIndex == {np \in PropertyIndex : PropertyAt(np).settable}

Before(a, b) == a[1] < b[1] \/ (a[1] = b[1] /\ a[2] < b[2])

\* the restore subscriptions open after the first k operations of a log: the
\* value topics subscribed and not unsubscribed
OpenRestore(s, k) ==
    {np \in SettableIndex :
        /\ \E i \in 1..k : s[i] = Sub(ValueTopic(np))
        /\ ~\E i \in 1..k : s[i] = Unsub(ValueTopic(np))}

\* C17: within a handshake the settable properties are taken one after
\* another in the order of the nodes and of each node's properties: every
\* operation on a property's topics comes after the /set subscription of every
\* settable property before it, and at no point of the handshake is more than
\* one of its restore subscriptions open.
C17_OnePropertyAtATime ==
    \A h \in Handshakes :
        LET s == ops[h] IN
        /\ \A a, b \in SettableIndex :
             Before(a, b) =>
                 \A j \in DOMAIN s :
                     s[j].topic \in {ValueTopic(b), ValueTopic(b) \o <<"set">>} =>
                         \E i \in 1..(j - 1) : s[i] = Sub(ValueTopic(a) \o <<"set">>)
        /\ \A k \in 0..Len(s) : Cardinality(OpenRestore(s, k)) <= 1

\* C17 witness: a handshake is in the restore delay of a property after it
\* has closed the restore subscription of an earlier property
C17_Witness ==
    \E h \in Handshakes : \E a, b \in SettableIndex :
        /\ Before(a, b)
        /\ PropertyAt(a).restore /\ PropertyAt(b).restore
        /\ pc[h].l = "restore_delay"
        /\ Unsub(ValueTopic(a)) \in Range(ops[h])
        /\ OpenRestore(ops[h], Len(ops[h])) = {b}

\* the settable properties with restore
RestoreIndex == {np \in SettableIndex : PropertyAt(np).restore}

\* C18: when a handshake has issued the restore subscription of a property,
\* the callback map holds the owning node's callback under the node's id; an
\* entry of the map is never removed or replaced; and a message that arrives
\* on the value topic of a restorable property while that topic is subscribed
\* is handed, unchanged, to the callback of the owning node.
C18_CallbackBeforeRestore ==
    /\ [](\A h \in Handshakes : \A np \in RestoreIndex :
            Sub(ValueTopic(np)) \in Range(ops[h]) =>
                /\ nodes[np[1]].id \in DOMAIN callback_topics
                /\ callback_topics[nodes[np[1]].id] = np[1])
    /\ [][\A id \in DOMAIN callback_topics :
            id \in DOMAIN callback_topics' /\ callback_topics'[id] = callback_topics[id]]_vars
    /\ [](\A np \in RestoreIndex :
            (inbound # NoMsg /\ inbound.topic = ValueTopic(np)
                /\ inbound.topic \in subscriptions) =>
                calls = << [fn |-> "callback", node |-> np[1], topic |-> inbound.topic,
                            msg |-> inbound.msg, retained |-> inbound.retained] >>)

\* C18 witness: a retained message on relay/power has been dispatched to the
\* callback of relay while a handshake is in the restore delay of that property
C18_Witness ==
    \E h \in Handshakes : \E np \in RestoreIndex :
        /\ pc[h].l = "restore_delay" /\ pc[h].n = np[1] /\ pc[h].p = np[2]
        /\ inbound.topic = ValueTopic(np)
        /\ inbound.retained
        /\ inbound.topic \in subscriptions
        /\ Len(calls) = 1 /\ calls[1].fn = "callback" /\ calls[1].node = np[1]

\* C19 (as claimed): a handshake that has issued READY has issued exactly one
\* of device-state INIT and device-state RECOVER before.
C19_ReadyAfterInitOrRecover ==
    \A h \in Handshakes :
        Ready \in Range(ops[h]) =>
            Count(ops[h], Pub(<<"homie", "dev", "$state">>, <<"init">>))
                + Count(ops[h], Pub(<<"homie", "dev", "$state">>, <<"recover">>)) = 1

\* the nodes that have no settable property
ReadOnlyNodes ==
    {n \in 1..Len(nodes) : \A p \in 1..Len(nodes[n].properties) :
                              ~nodes[n].properties[p].settable}

\* C20: for a property that is not settable no handshake issues an operation
\* on <node>/<property> or <node>/<property>/set, whatever its restore flag; a
\* node without a settable property is never in the callback map; and for a
\* message addressed to such a node sub_cb invokes nothing.
C20_ReadOnlyPropertyIgnored ==
    /\ \A h \in Handshakes : \A np \in PropertyIndex \ SettableIndex :
         \A i \in DOMAIN ops[h] :
             ops[h][i].topic \notin {ValueTopic(np), ValueTopic(np) \o <<"set">>}
    /\ \A n \in ReadOnlyNodes : nodes[n].id \notin DOMAIN callback_topics
    /\ \A n \in ReadOnlyNodes :
         (inbound # NoMsg /\ NoMarker(inbound.topic) /\ inbound.topic[3] = nodes[n].id) =>
             calls = <<>>

\* C20 witness: on a device whose only node has one property, not settable and
\* with restore, a handshake has completed and a message addressed to the node
\* has been dropped
C20_Witness ==
    \E h \in Handshakes : \E n \in ReadOnlyNodes :
        /\ pc[h].l = "done"
        /\ \E p \in 1..Len(nodes[n].properties) : nodes[n].properties[p].restore
        /\ inbound # NoMsg
        /\ inbound.topic[3] = nodes[n].id
        /\ calls = <<>>

====
